---- MODULE Spec2Model ----
(***************************************************************************)
(* torrent-search-engine: the search orchestrator (TorrentSearchEngine),   *)
(* the provider search protocol (TorrentProvider) and the pure merge       *)
(* functions (_filter, _sort).                                             *)
(*                                                                         *)
(* Spec is one run of TorrentSearchEngine.search, SpecCalls the direct     *)
(* calls of the functions of a provider and of the merge, SpecRegistry the *)
(* sequences of calls on the registry (TorrentProviderManager).            *)
(*                                                                         *)
(* Time is counted in hundredths of a second, so the 0.01 s threshold of   *)
(* the task is one unit.  Python's None is the string "None" where the     *)
(* value is a string and the empty tuple where it is a number.  A raised   *)
(* exception is a value of an "exc" field, "none" when nothing was raised. *)
(***************************************************************************)
EXTENDS Integers, Sequences, FiniteSets, TLC

VARIABLES
    registry,   \* TorrentProviderManager.providers, in insertion order
    args,       \* the arguments of the search call
    pc,         \* position of the thread that called search
    providers,  \* search's local list of enabled providers (registry indices)
    n_threads,  \* search's local n_threads after defaulting
    task,       \* one entry per submitted task of _multithreaded_search
    q,          \* the queue.Queue of _multithreaded_search
    clock,      \* time.time()
    start_time, \* _multithreaded_search's start_time
    torrents,   \* the list drained from q
    result,     \* the value search returned
    exc,        \* the exception search raised, "none" if none
    call,       \* a direct call of one function: its name and arguments
    ret         \* what that call returned or raised

vars == <<registry, args, pc, providers, n_threads, task, q, clock,
          start_time, torrents, result, exc, call, ret>>

engineVars == <<registry, args, pc, providers, n_threads, task, q, clock,
                start_time, torrents, result, exc>>

----------------------------------------------------------------------------
(* Bounds of the model *)

MaxLen == 3

Titles == {"A", "B"}

Seeds == {1, 2, 5}

\* the places of the registry
ProviderIds == {1, 2}

\* Torrent: title, seeds and the provider that produced it
Torrent == [title : Titles, seeds : Seeds, provider : ProviderIds]

TorrentLists == UNION {[1..n -> Torrent] : n \in 0..MaxLen}

Range(s) == {s[i] : i \in 1..Len(s)}

\* no direct call is under way
NoCall == [fn |-> "none"]

----------------------------------------------------------------------------
(* TorrentSearchEngine._filter *)

\* a slip: ">=" lets a later record of equal seeds replace the earlier one
FilterItemLatest(filtered, item) ==
    LET dup == {idx \in 1..Len(filtered) : item.title = filtered[idx].title}
    IN  IF dup = {}
        THEN Append(filtered, item)
        ELSE [idx \in 1..Len(filtered) |->
                 IF idx \in dup /\ item.seeds >= filtered[idx].seeds
                 THEN item ELSE filtered[idx]]

\* a slip: the duplicate is found but the entry is never replaced
FilterItemKeepFirst(filtered, item) ==
    LET dup == {idx \in 1..Len(filtered) : item.title = filtered[idx].title}
    IN  IF dup = {} THEN Append(filtered, item) ELSE filtered

\* one iteration of the outer loop: the inner loop replaces every entry of
\* equal title and fewer seeds, the item is appended if no title matched
FilterItem(filtered, item) ==
    LET dup == {idx \in 1..Len(filtered) : item.title = filtered[idx].title}
    IN  IF dup = {}
        THEN Append(filtered, item)
        ELSE [idx \in 1..Len(filtered) |->
                 IF idx \in dup /\ item.seeds > filtered[idx].seeds
                 THEN item ELSE filtered[idx]]

RECURSIVE FilterFrom(_, _, _)
FilterFrom(filtered, items, i) ==
    IF i > Len(items) THEN filtered
    ELSE FilterFrom(FilterItem(filtered, items[i]), items, i + 1)

_filter(items) == FilterFrom(<<>>, items, 1)

----------------------------------------------------------------------------
(* TorrentSearchEngine._sort: sorted(items, key=seeds, reverse=True) *)

\* a slip: sorting ascending and reversing puts equal keys in reverse order
SortedInsertReversed(sorted, item) ==
    LET k == Cardinality({i \in 1..Len(sorted) : sorted[i].seeds > item.seeds})
    IN  SubSeq(sorted, 1, k) \o <<item>> \o SubSeq(sorted, k + 1, Len(sorted))

\* a slip: reverse=True left out
SortedInsertAscending(sorted, item) ==
    LET k == Cardinality({i \in 1..Len(sorted) : sorted[i].seeds <= item.seeds})
    IN  SubSeq(sorted, 1, k) \o <<item>> \o SubSeq(sorted, k + 1, Len(sorted))

\* the place of one more item in a list sorted by seeds, descending: behind
\* every item of at least its seeds (reverse=True keeps equal keys in order)
SortedInsert(sorted, item) ==
    LET k == Cardinality({i \in 1..Len(sorted) : sorted[i].seeds >= item.seeds})
    IN  SubSeq(sorted, 1, k) \o <<item>> \o SubSeq(sorted, k + 1, Len(sorted))

RECURSIVE SortFrom(_, _, _)
SortFrom(sorted, items, i) ==
    IF i > Len(items) THEN sorted
    ELSE SortFrom(SortedInsert(sorted, items[i]), items, i + 1)

_sort(items) == SortFrom(<<>>, items, 1)

----------------------------------------------------------------------------
(* TorrentProvider: configuration and the strings it formats *)

MaxQuery == 2

\* a query is a string over one letter and the blank
Chars == {"a", " "}

Queries == UNION {[1..n -> Chars] : n \in 1..MaxQuery}

\* a template is a list of literal pieces and {placeholders}
SearchPaths == {<<"/s/", "{query}">>, <<"/", "{category}", "/", "{query}">>}

CategoryMaps == {<<>>, [movies |-> <<"cat/movies">>], [movies |-> <<"c/", "{query}">>, tv |-> <<"c/", "{genre}">>]}

\* the fields of a TorrentProvider that search reads; categories and
\* whitespace_char are None when the definition leaves them out
ProviderConfigs ==
    [search_path : SearchPaths,
     categories  : [none : {TRUE}, map : {<<>>}] \cup [none : {FALSE}, map : CategoryMaps],
     whitespace_char : {"None", "+"}]

Categories == {"None", "all", "movies", "tv"}

RECURSIVE Lstrip(_)
Lstrip(s) == IF s # <<>> /\ Head(s) = " " THEN Lstrip(Tail(s)) ELSE s

RECURSIVE Rstrip(_)
Rstrip(s) == IF s # <<>> /\ s[Len(s)] = " " THEN Rstrip(SubSeq(s, 1, Len(s) - 1)) ELSE s

\* str.strip()
Strip(s) == Rstrip(Lstrip(s))

\* re.sub(r"\s+", ch, s): every maximal run of blanks becomes one ch
RECURSIVE SubWhitespace(_, _)
SubWhitespace(s, ch) ==
    IF s = <<>> THEN <<>>
    ELSE IF Head(s) # " " THEN <<Head(s)>> \o SubWhitespace(Tail(s), ch)
    ELSE <<ch>> \o SubWhitespace(Lstrip(s), ch)

IsPlaceholder(piece) == piece \in {"{query}", "{category}", "{genre}"}

\* str.format(**kw): KeyError for a placeholder that kw does not name
FormatRaises(template, keys) ==
    \E i \in 1..Len(template) : IsPlaceholder(template[i]) /\ template[i] \notin keys

\* str.format(**kw): every placeholder replaced by its value
FormatValue(template, kw) ==
    [i \in 1..Len(template) |->
        IF template[i] \in DOMAIN kw THEN kw[template[i]] ELSE <<template[i]>>]

\* "not self.categories": None and the empty map are both false
NoCategories(prov) == prov.categories.none \/ DOMAIN prov.categories.map = {}

\* TorrentProvider._get_category_path; "category == 'all'" on line 213
\* compares and assigns nothing, so None stays None
_get_category_path(prov, category) ==
    IF NoCategories(prov)
    THEN IF category = "all"
         THEN [exc |-> "none", isNone |-> TRUE, value |-> <<>>]
         ELSE [exc |-> "NotSupportedError", isNone |-> TRUE, value |-> <<>>]
    ELSE IF category \in DOMAIN prov.categories.map
         THEN [exc |-> "none", isNone |-> FALSE, value |-> prov.categories.map[category]]
         ELSE [exc |-> "NotSupportedError", isNone |-> TRUE, value |-> <<>>]

\* lines 194-197
NormalizedQuery(prov, query) ==
    IF prov.whitespace_char # "None"
    THEN SubWhitespace(Strip(query), prov.whitespace_char)
    ELSE Strip(query)

\* TorrentProvider._format_search_path.  Line 204 reads the local "path"
\* before any assignment to it: once the category path is there, the
\* function ends in UnboundLocalError, which "except KeyError" lets through.
_format_search_path(prov, query, category) ==
    LET q1 == NormalizedQuery(prov, query)
        category_path == _get_category_path(prov, category)
    IN  IF category_path.exc # "none"
        THEN [exc |-> category_path.exc, value |-> <<>>]
        ELSE IF ~category_path.isNone /\ FormatRaises(category_path.value, {"{query}"})
        THEN [exc |-> "FormatError", value |-> <<>>]
        ELSE [exc |-> "UnboundLocalError", value |-> <<>>]

----------------------------------------------------------------------------
(* TorrentProvider.search: the generator, run to its end *)

MaxPages == 2

\* an optional number: <<>> is None, <<n>> is n
None == <<>>

Truthy(opt) == opt # None /\ opt[1] # 0

\* the item nodes of a listing page, each with whether Torrent(**data)
\* accepts it
ItemLists == {<<>>, <<[valid |-> TRUE, title |-> "A", seeds |-> 5]>>,
              <<[valid |-> FALSE, title |-> "A", seeds |-> 5],
                [valid |-> TRUE, title |-> "A", seeds |-> 5]>>}

\* the time that the fetch of a page and the handling of its items take
Tooks == {0, 1}

\* what the site answers for each page path; load is the outcome of fetch
\* and of Scraper(response.text); page k names a next page iff one follows
Pages == [load : {"ok", "RequestError", "ParseError"}, items : ItemLists,
          took : Tooks]

Sites == UNION {[1..n -> Pages] : n \in 1..MaxPages}

\* Scraper.select_elements(selector, limit): up to limit nodes, all of them
\* when limit is None or 0
select_elements(items, limit) ==
    IF ~Truthy(limit) THEN items
    ELSE SubSeq(items, 1, IF limit[1] < Len(items) THEN limit[1] ELSE Len(items))

\* lines 95-103: the records yielded for the item nodes of one page
RECURSIVE YieldValid(_, _)
YieldValid(items, id) ==
    IF items = <<>> THEN <<>>
    ELSE (IF Head(items).valid
          THEN <<[title |-> Head(items).title, seeds |-> Head(items).seeds, provider |-> id]>>
          ELSE <<>>) \o YieldValid(Tail(items), id)

\* lines 79-83: the timeout handed to fetch, recomputed from the time
\* elapsed since line 71; None when search was given no timeout
CurrentTimeout(timeout, elapsed_time) ==
    IF timeout # None THEN <<timeout[1] - elapsed_time>> ELSE None

\* what the loop has done so far: the records yielded and, for every fetch
\* started, the timeout handed to it, the quota it started with and the
\* item nodes handled on its page
NoProgress == [yielded |-> <<>>, trace |-> <<>>]

\* lines 78-107, page k being the page of the current path, elapsed_time the
\* time since line 71.  With limit None, "remaining -= len(items)" on line
\* 105 subtracts from None: TypeError.
RECURSIVE SearchLoop(_, _, _, _, _, _, _, _)
SearchLoop(site, id, limit, remaining, timeout, elapsed_time, k, done) ==
    IF ~(k <= Len(site) /\ (~Truthy(limit) \/ remaining[1] > 0))
    THEN [exc |-> "none", yielded |-> done.yielded, fetches |-> Len(done.trace),
          trace |-> done.trace, remaining |-> remaining]
    ELSE LET current_timeout == CurrentTimeout(timeout, elapsed_time)
             items == IF site[k].load = "ok"
                      THEN select_elements(site[k].items, remaining) ELSE <<>>
             now == [yielded |-> done.yielded \o YieldValid(items, id),
                     trace |-> Append(done.trace,
                                      [current_timeout |-> current_timeout,
                                       remaining |-> remaining,
                                       items |-> Len(items)])]
         IN  IF site[k].load # "ok"
             THEN [exc |-> site[k].load, yielded |-> now.yielded,
                   fetches |-> Len(now.trace), trace |-> now.trace,
                   remaining |-> remaining]
             ELSE IF remaining = None
             THEN [exc |-> "TypeError", yielded |-> now.yielded,
                   fetches |-> Len(now.trace), trace |-> now.trace,
                   remaining |-> remaining]
             ELSE SearchLoop(site, id, limit, <<remaining[1] - Len(items)>>,
                             timeout, elapsed_time + site[k].took, k + 1, now)

\* line 76, "self._format_search_path(query)": one argument for the two
\* parameters (query, category) of line 193, which is a TypeError
FormatFirstPath(prov, query, category) ==
    [exc |-> "TypeError", value |-> <<>>]

\* TorrentProvider.search(query, category, limit, timeout) on provider id
\* whose site answers as given: the exception that ends the generator, the
\* records it yielded before, the fetches it made
search(prov, id, query, category, limit, timeout, site) ==
    LET path == FormatFirstPath(prov, query, category)
    IN  IF path.exc # "none"
        THEN [exc |-> path.exc, yielded |-> <<>>, fetches |-> 0, trace |-> <<>>,
              remaining |-> limit]
        ELSE SearchLoop(site, id, limit, limit, timeout, 0, 1, NoProgress)

----------------------------------------------------------------------------
(* TorrentProvider.fetch_details_data *)

\* Torrent.info_url: None, the empty string, or a path
InfoUrls == {"None", "", "/t/1"}

\* the outcome of fetch and of Scraper(response.text) for the info page
DetailLoads == {"ok", "RequestError", "Timeout", "ParseError"}

\* a slip: no early return for a record without info_url
fetch_details_data_fetching(info_url, load) ==
    IF load # "ok"
    THEN [exc |-> load, isNone |-> TRUE, fields |-> {}, fetches |-> 1]
    ELSE [exc |-> "none", isNone |-> TRUE, fields |-> {}, fetches |-> 1]

\* fetch_details_data on a torrent of the given info_url: the exception
\* raised, the value returned (None, or a dict of the given fields) and the
\* fetches made.  _get_torrent_details_data (lines 244-260) ends without a
\* return statement, so line 142 returns None
fetch_details_data(info_url, load) ==
    IF info_url \in {"None", ""}
    THEN [exc |-> "none", isNone |-> FALSE, fields |-> {}, fetches |-> 0]
    ELSE IF load # "ok"
    THEN [exc |-> load, isNone |-> TRUE, fields |-> {}, fetches |-> 1]
    ELSE [exc |-> "none", isNone |-> TRUE, fields |-> {}, fetches |-> 1]

----------------------------------------------------------------------------
(* TorrentSearchEngine.search and _multithreaded_search *)

MaxClock == 2

MaxLimit == 2

MaxItems == 2

CpuCount == 1

ThreadsPerCpu == 5

\* 0.01 s
Threshold == 1

\* the subclasses of TorrentProviderError that a provider's search raises
ProviderErrors == {"ParseError", "RequestError", "Timeout", "FormatError", "NotSupportedError"}

\* the listing of a source of another class: title and seeds of its
\* records in the order of its pages, from a place in this cycle onwards
Listing == <<<<"A", 5>>, <<"A", 2>>, <<"B", 1>>, <<"B", 5>>>>

Offsets == {0, 1, 3}

\* the n-th record that provider id yields when its listing starts at offset
ListedTorrent(id, offset, n) ==
    LET r == Listing[((offset + n - 1) % Len(Listing)) + 1]
    IN  [title |-> r[1], seeds |-> r[2], provider |-> id]

\* the site and the two definitions of the TorrentProvider instances
TheSite ==
    <<[load |-> "ok", items |-> <<[valid |-> TRUE, title |-> "A", seeds |-> 5]>>,
       took |-> 0]>>

PlainConfig ==
    [search_path |-> <<"/s/", "{query}">>,
     categories |-> [none |-> TRUE, map |-> <<>>], whitespace_char |-> "None"]

MapConfig ==
    [search_path |-> <<"/", "{category}", "/", "{query}">>,
     categories |-> [none |-> FALSE, map |-> [movies |-> <<"cat/movies">>]],
     whitespace_char |-> "+"]

\* a registered provider: a TorrentProvider of torrentprovider.py, or an
\* object of another class that implements search(query, limit, timeout)
RegistryEntries ==
    [cls : {"TorrentProvider"}, enabled : BOOLEAN, config : {PlainConfig, MapConfig},
     offset : {0}]
    \cup [cls : {"Custom"}, enabled : BOOLEAN, config : {PlainConfig}, offset : Offsets]

Registries == UNION {[1..n -> RegistryEntries] : n \in 0..Cardinality(ProviderIds)}

\* the arguments of a search; a thread count below 1 is tried with the
\* smallest sink, where the runs are shortest
SearchArgs ==
    [query : {<<>>, <<"a">>}, limit : 0..MaxLimit,
     timeout : {Threshold + 1},
     n_threads : {None, <<1>>}]
    \cup [query : {<<"a">>}, limit : {1}, timeout : {Threshold + 1},
          n_threads : {<<0>>}]

\* a slip: a selection that forgets the enabled flag
get_all_unfiltered(reg, i) == [k \in 1..Len(reg) |-> k]

\* TorrentProviderManager.get_all(enabled=True), as registry indices
RECURSIVE get_all(_, _)
get_all(reg, i) ==
    IF i > Len(reg) THEN <<>>
    ELSE (IF reg[i].enabled THEN <<i>> ELSE <<>>) \o get_all(reg, i + 1)

\* a slip: the caller's thread count left unread
DefaultThreadsOnly(n_arg, n_providers) ==
    LET max_threads == CpuCount * ThreadsPerCpu
    IN  IF n_providers < max_threads THEN n_providers ELSE max_threads

\* lines 36-39
DefaultThreads(n_arg, n_providers) ==
    IF n_arg = None \/ n_arg[1] < 1
    THEN LET max_threads == CpuCount * ThreadsPerCpu
         IN  IF n_providers < max_threads THEN n_providers ELSE max_threads
    ELSE n_arg[1]

\* timeout is the local of task after line 115, search_timeout the timeout
\* parameter of provider.search as the call of line 119 binds it
NewTask == [st |-> "pending", g |-> "new", todo |-> <<>>, ending |-> "none",
            exc |-> "none", fetches |-> 0, offered |-> 0, timeout |-> 0,
            search_timeout |-> None, cut |-> FALSE]

Init ==
    /\ registry \in Registries
    /\ args \in SearchArgs
    /\ pc = "idle"
    /\ providers = <<>>
    /\ n_threads = 0
    /\ task = <<>>
    /\ q = <<>>
    /\ clock = 0
    /\ start_time = 0
    /\ torrents = <<>>
    /\ result = <<>>
    /\ exc = "none"
    /\ call = NoCall
    /\ ret = NoCall

\* search up to the submission of the tasks: lines 28-45 and 127-133
SearchCall ==
    /\ pc = "idle"
    /\ LET enabled == get_all(registry, 1)
       IN  IF args.query = <<>> \/ Len(enabled) = 0
           THEN /\ pc' = "returned"
                /\ result' = <<>>
                /\ UNCHANGED <<providers, n_threads, task, start_time>>
           ELSE /\ pc' = "map"
                /\ providers' = enabled
                /\ n_threads' = DefaultThreads(args.n_threads, Len(enabled))
                /\ start_time' = clock
                /\ task' = [i \in 1..Len(enabled) |-> NewTask]
                /\ UNCHANGED result
    /\ q' = <<>>
    /\ UNCHANGED <<registry, args, clock, torrents, exc, call, ret>>

Running == {i \in 1..Len(task) : task[i].st = "running"}

\* time passes; the clock is read when a task starts (line 113) and before
\* a fetch, so it is let advance while a task waits for a worker or a fetch
Tick ==
    /\ pc = "map"
    /\ \E i \in 1..Len(task) : task[i].st = "pending" \/ task[i].g = "fetching"
    /\ clock < MaxClock
    /\ clock' = clock + 1
    /\ UNCHANGED <<registry, args, pc, providers, n_threads, task, q,
                   start_time, torrents, result, exc, call, ret>>

\* a worker takes the next task of the work queue: lines 113-117
TaskStart(i) ==
    /\ pc = "map"
    /\ task[i].st = "pending"
    /\ \A j \in 1..(i - 1) : task[j].st # "pending"
    /\ Cardinality(Running) < n_threads
    /\ LET elapsed_time == clock - start_time
           timeout == args.timeout - elapsed_time
       IN  task' = [task EXCEPT ![i].timeout = timeout,
                                ![i].cut = timeout <= Threshold,
                                ![i].st = IF timeout <= Threshold THEN "done" ELSE "running"]
    /\ UNCHANGED <<registry, args, pc, providers, n_threads, q, clock,
                   start_time, torrents, result, exc, call, ret>>

\* the rendering of a limit that arrives as the category
LimitAsCategory(limit) == IF limit = 0 THEN "0" ELSE IF limit = 1 THEN "1" ELSE "n"

\* line 119 on a TorrentProvider: provider.search(query, limit, timeout)
\* binds limit to category, timeout to limit and leaves timeout None
TaskIterProvider(i) ==
    /\ task[i].st = "running"
    /\ task[i].g = "new"
    /\ registry[providers[i]].cls = "TorrentProvider"
    /\ LET run == search(registry[providers[i]].config, providers[i], args.query,
                         LimitAsCategory(args.limit), <<task[i].timeout>>, None, TheSite)
       IN  task' = [task EXCEPT ![i].g = "deliver", ![i].todo = run.yielded,
                                ![i].ending = run.exc, ![i].fetches = run.fetches,
                                ![i].search_timeout = None]
    /\ UNCHANGED <<registry, args, pc, providers, n_threads, q, clock,
                   start_time, torrents, result, exc, call, ret>>

\* a provider of another class, whose search(query, limit, timeout) takes
\* the arguments of line 119 as they are named there, starts the fetch of
\* its first page, or of the next one after the records of a page, unless
\* the time that remains is at or below the threshold
TaskIterCustom(i) ==
    /\ task[i].st = "running"
    /\ registry[providers[i]].cls = "Custom"
    /\ \/ task[i].g = "new"
       \/ task[i].g = "deliver" /\ task[i].fetches < MaxPages
    /\ LET remaining == args.timeout - (clock - start_time)
           search_timeout == IF task[i].g = "new" THEN <<task[i].timeout>>
                             ELSE task[i].search_timeout
       IN  task' = IF remaining <= Threshold
                   THEN [task EXCEPT ![i].st = "done", ![i].cut = TRUE,
                                     ![i].search_timeout = search_timeout]
                   ELSE [task EXCEPT ![i].g = "fetching",
                                     ![i].fetches = task[i].fetches + 1,
                                     ![i].search_timeout = search_timeout]
    /\ UNCHANGED <<registry, args, pc, providers, n_threads, q, clock,
                   start_time, torrents, result, exc, call, ret>>

\* the fetch ends: in a page, or in an error that ends the generator and
\* that line 121 catches
CustomFetchDone(i) ==
    /\ task[i].st = "running"
    /\ task[i].g = "fetching"
    /\ \/ task' = [task EXCEPT ![i].g = "deliver"]
       \/ \E e \in {"RequestError", "Timeout"} :
             task' = [task EXCEPT ![i].g = "end", ![i].st = "done", ![i].exc = e]
    /\ UNCHANGED <<registry, args, pc, providers, n_threads, q, clock,
                   start_time, torrents, result, exc, call, ret>>

\* the records the generator of task i may yield next
NextYields(i) ==
    IF registry[providers[i]].cls = "TorrentProvider"
    THEN (IF task[i].todo = <<>> THEN {} ELSE {Head(task[i].todo)})
    ELSE (IF task[i].offered < MaxItems
          THEN {ListedTorrent(providers[i], registry[providers[i]].offset,
                              task[i].offered + 1)}
          ELSE {})

\* a slip: a queue that takes one record more than maxsize
QueueFullLate(queue, maxsize) == maxsize > 0 /\ Len(queue) > maxsize

\* queue.Queue(maxsize).full(): never when maxsize <= 0
QueueFull(queue, maxsize) == maxsize > 0 /\ Len(queue) >= maxsize

\* a slip: q.put(torrent), which waits for room in the queue
TaskPutBlocking(i) ==
    /\ task[i].st = "running"
    /\ task[i].g = "deliver"
    /\ ~QueueFull(q, args.limit)
    /\ \E torrent \in NextYields(i) :
          /\ task' = [task EXCEPT ![i].offered = task[i].offered + 1,
                               ![i].todo = IF task[i].todo = <<>> THEN <<>>
                                           ELSE Tail(task[i].todo)]
          /\ q' = Append(q, torrent)
    /\ UNCHANGED <<registry, args, pc, providers, n_threads, clock,
                   start_time, torrents, result, exc, call, ret>>

\* a slip: queue.Full caught inside the for loop, so that the task goes on
\* to the next record
TaskPutSkipping(i) ==
    /\ task[i].st = "running"
    /\ task[i].g = "deliver"
    /\ \E torrent \in NextYields(i) :
          /\ task' = [task EXCEPT ![i].offered = task[i].offered + 1,
                               ![i].exc = IF QueueFull(q, args.limit) THEN "Full"
                                          ELSE task[i].exc,
                               ![i].todo = IF task[i].todo = <<>> THEN <<>>
                                           ELSE Tail(task[i].todo)]
          /\ q' = IF QueueFull(q, args.limit) THEN q ELSE Append(q, torrent)
    /\ UNCHANGED <<registry, args, pc, providers, n_threads, clock,
                   start_time, torrents, result, exc, call, ret>>

\* line 120, q.put_nowait(torrent), and "except queue.Full: pass"
TaskPut(i) ==
    /\ task[i].st = "running"
    /\ task[i].g = "deliver"
    /\ \E torrent \in NextYields(i) :
          IF QueueFull(q, args.limit)
          THEN /\ task' = [task EXCEPT ![i].st = "done", ![i].exc = "Full",
                                       ![i].offered = task[i].offered + 1]
               /\ q' = q
          ELSE /\ task' = [task EXCEPT ![i].offered = task[i].offered + 1,
                               ![i].todo = IF task[i].todo = <<>> THEN <<>>
                                           ELSE Tail(task[i].todo)]
               /\ q' = Append(q, torrent)
    /\ UNCHANGED <<registry, args, pc, providers, n_threads, clock,
                   start_time, torrents, result, exc, call, ret>>

\* the generator ends: StopIteration ends the for loop, a
\* TorrentProviderError is logged (lines 121-123), anything else leaves task
TaskEnd(i) ==
    /\ task[i].st = "running"
    /\ task[i].g = "deliver"
    /\ task[i].todo = <<>>
    /\ task' = [task EXCEPT ![i].exc = task[i].ending,
                            ![i].st = IF task[i].ending \in ProviderErrors \cup {"none"}
                                      THEN "done" ELSE "raised"]
    /\ UNCHANGED <<registry, args, pc, providers, n_threads, q, clock,
                   start_time, torrents, result, exc, call, ret>>

\* line 133: the iteration over executor.map reaches the result of a task
\* that raised; the pending tasks are cancelled and the exception leaves
MapRaise ==
    /\ pc = "map"
    /\ \E i \in 1..Len(task) :
          /\ task[i].st = "raised"
          /\ \A j \in 1..(i - 1) : task[j].st = "done"
          /\ exc' = task[i].exc
    /\ task' = [i \in 1..Len(task) |->
                   IF task[i].st = "pending" THEN [task[i] EXCEPT !.st = "cancelled"]
                   ELSE task[i]]
    /\ pc' = "shutdown"
    /\ UNCHANGED <<registry, args, providers, n_threads, q, clock,
                   start_time, torrents, result, call, ret>>

\* the with block waits for the tasks that run, then search raises
Shutdown ==
    /\ pc = "shutdown"
    /\ Running = {}
    /\ pc' = "raised"
    /\ UNCHANGED <<registry, args, providers, n_threads, task, q, clock,
                   start_time, torrents, result, exc, call, ret>>

\* every task is done: lines 135-138 drain q, lines 47-52 filter and sort
Return ==
    /\ pc = "map"
    /\ \A i \in 1..Len(task) : task[i].st = "done"
    /\ torrents' = q
    /\ q' = <<>>
    /\ result' = _sort(_filter(q))
    /\ pc' = "returned"
    /\ UNCHANGED <<registry, args, providers, n_threads, task, clock,
                   start_time, exc, call, ret>>

Next ==
    \/ SearchCall
    \/ Tick
    \/ \E i \in 1..Len(task) : TaskStart(i)
    \/ \E i \in 1..Len(task) : TaskIterProvider(i)
    \/ \E i \in 1..Len(task) : TaskIterCustom(i)
    \/ \E i \in 1..Len(task) : CustomFetchDone(i)
    \/ \E i \in 1..Len(task) : TaskPut(i)
    \/ \E i \in 1..Len(task) : TaskEnd(i)
    \/ MapRaise
    \/ Shutdown
    \/ Return

Spec == Init /\ [][Next]_vars

----------------------------------------------------------------------------
(* Direct calls of the pure functions *)

InitCalls ==
    /\ call = NoCall
    /\ ret = NoCall
    /\ registry = <<>>
    /\ args = [query |-> "", limit |-> 0, timeout |-> 0, n_threads |-> 0]
    /\ pc = "none"
    /\ providers = <<>>
    /\ n_threads = 0
    /\ task = <<>>
    /\ q = <<>>
    /\ clock = 0
    /\ start_time = 0
    /\ torrents = <<>>
    /\ result = <<>>
    /\ exc = "none"

Call_filter ==
    /\ call = NoCall
    /\ \E items \in TorrentLists :
          /\ call' = [fn |-> "_filter", items |-> items]
          /\ ret' = [exc |-> "none", value |-> _filter(items)]
    /\ UNCHANGED engineVars

Call_sort ==
    /\ call = NoCall
    /\ \E items \in TorrentLists :
          /\ call' = [fn |-> "_sort", items |-> items]
          /\ ret' = [exc |-> "none", value |-> _sort(items)]
    /\ UNCHANGED engineVars

Call_get_category_path ==
    /\ call = NoCall
    /\ \E prov \in ProviderConfigs, category \in Categories :
          /\ call' = [fn |-> "_get_category_path", prov |-> prov, category |-> category]
          /\ ret' = _get_category_path(prov, category)
    /\ UNCHANGED engineVars

Call_format_search_path ==
    /\ call = NoCall
    /\ \E prov \in ProviderConfigs, query \in Queries, category \in Categories :
          /\ call' = [fn |-> "_format_search_path", prov |-> prov,
                      query |-> query, category |-> category]
          /\ ret' = _format_search_path(prov, query, category)
    /\ UNCHANGED engineVars

Call_search ==
    /\ call = NoCall
    /\ \E prov \in {PlainConfig, MapConfig}, query \in {<<"a">>, <<"a", " ">>},
          category \in {"None", "tv"}, limit \in {None, <<0>>, <<1>>, <<3>>},
          timeout \in {None, <<1>>, <<2>>}, site \in Sites :
          /\ call' = [fn |-> "search", prov |-> prov, query |-> query,
                      category |-> category, limit |-> limit,
                      timeout |-> timeout, site |-> site]
          /\ ret' = search(prov, 1, query, category, limit, timeout, site)
    /\ UNCHANGED engineVars

Call_fetch_details_data ==
    /\ call = NoCall
    /\ \E info_url \in InfoUrls, load \in DetailLoads :
          /\ call' = [fn |-> "fetch_details_data", info_url |-> info_url, load |-> load]
          /\ ret' = fetch_details_data(info_url, load)
    /\ UNCHANGED engineVars

NextCalls ==
    \/ Call_search
    \/ Call_fetch_details_data
    \/ Call_filter
    \/ Call_sort
    \/ Call_get_category_path
    \/ Call_format_search_path

SpecCalls == InitCalls /\ [][NextCalls]_vars

----------------------------------------------------------------------------
(* C3, C4: the merge functions *)

TitlesOf(s) == {s[i].title : i \in 1..Len(s)}

FirstIndex(items, title) ==
    CHOOSE i \in 1..Len(items) :
        /\ items[i].title = title
        /\ \A j \in 1..(i - 1) : items[j].title # title

\* the earliest record of the highest seed count among those of a title
BestIndex(items, title) ==
    CHOOSE i \in 1..Len(items) :
        /\ items[i].title = title
        /\ \A j \in 1..Len(items) :
              items[j].title = title => items[j].seeds <= items[i].seeds
        /\ \A j \in 1..(i - 1) :
              items[j].title = title => items[j].seeds < items[i].seeds

FilterContract(items, out) ==
    /\ \A i, j \in 1..Len(out) : i # j => out[i].title # out[j].title
    /\ TitlesOf(out) = TitlesOf(items)
    /\ \A k \in 1..Len(out) : out[k] = items[BestIndex(items, out[k].title)]
    /\ \A k, l \in 1..Len(out) :
          k < l => FirstIndex(items, out[k].title) < FirstIndex(items, out[l].title)

\* C3: _filter returns one record per title of its input, the earliest one of
\* the highest seed count of that title, in the order in which the titles
\* first occur in the input.
C3_FilterKeepsBestPerTitle ==
    call.fn = "_filter" => FilterContract(call.items, ret.value)

\* a later record of more seeds took the place of an earlier one, and two
\* records of one title tied for the highest seed count
C3_Witness ==
    /\ call.fn = "_filter"
    /\ \E i, j \in 1..Len(call.items) :
          /\ i < j
          /\ call.items[i].title = call.items[j].title
          /\ call.items[i].seeds < call.items[j].seeds
          /\ call.items[j] \in Range(ret.value)
    /\ \E i, j \in 1..Len(call.items) :
          /\ i < j
          /\ call.items[i].title = call.items[j].title
          /\ call.items[i].seeds = call.items[j].seeds
          /\ call.items[i] # call.items[j]
          /\ call.items[i] \in Range(ret.value)

Bijections(n) == {f \in [1..n -> 1..n] : \A i, j \in 1..n : i # j => f[i] # f[j]}

SortContract(items, out) ==
    /\ Len(out) = Len(items)
    /\ \E f \in Bijections(Len(items)) :
          /\ \A i \in 1..Len(out) : out[i] = items[f[i]]
          /\ \A i, j \in 1..Len(out) :
                i < j => /\ out[i].seeds >= out[j].seeds
                         /\ out[i].seeds = out[j].seeds => f[i] < f[j]

\* C4: _sort returns a permutation of its input in descending order of seeds,
\* records of equal seeds keeping the order they had in the input.
C4_SortStableDescending ==
    call.fn = "_sort" => SortContract(call.items, ret.value)

\* an input that is out of order and holds two different records of equal seeds
C4_Witness ==
    /\ call.fn = "_sort"
    /\ ret.value # call.items
    /\ \E i, j \in 1..Len(call.items) :
          /\ i < j
          /\ call.items[i].seeds = call.items[j].seeds
          /\ call.items[i] # call.items[j]
          /\ \E k \in 1..Len(call.items) : call.items[k].seeds < call.items[i].seeds /\ k < i

----------------------------------------------------------------------------
(* C7, C8: the provider on its own *)

\* the template with only the query filled in
TemplateWithQuery(prov, query) ==
    FormatValue(prov.search_path, [key \in {"{query}"} |-> NormalizedQuery(prov, query)])

\* C8: with no category asked for (None or "all") and no category map,
\* _format_search_path raises nothing and returns the template with the
\* normalized query filled in.
C8_NoCategoryNoMapFormats ==
    (/\ call.fn = "_format_search_path"
     /\ call.category \in {"None", "all"}
     /\ NoCategories(call.prov))
    => /\ ret.exc = "none"
       /\ ret.value = TemplateWithQuery(call.prov, call.query)

TotalItems(site) == Len(site[1].items) + Len(site[2].items)

\* C7: a search over a site of two pages, both loading, with no limit or a
\* limit above the number of items, makes two fetches and ends without error.
C7_TwoPagesTwoFetches ==
    (/\ call.fn = "search"
     /\ Len(call.site) = 2
     /\ \A k \in 1..2 : call.site[k].load = "ok"
     /\ \/ ~Truthy(call.limit)
        \/ call.limit[1] > TotalItems(call.site))
    => /\ ret.exc = "none"
       /\ ret.fetches = 2

----------------------------------------------------------------------------
(* C1, C2, C5, C6, C9, C10: the orchestrated search *)

Tasks == 1..Len(task)

\* the records of the drained list that the provider of task i put
RECURSIVE FromTask(_, _)
FromTask(list, i) ==
    IF list = <<>> THEN <<>>
    ELSE (IF Head(list).provider = providers[i] THEN <<Head(list)>> ELSE <<>>)
         \o FromTask(Tail(list), i)

\* the search of the source of task i failed
Failed(i) == task[i].exc \in ProviderErrors \cup {"TypeError"}

\* C1: no failure of a source is raised out of search, and a source whose
\* search failed has no record in the collected list.
C1_SourceFailuresContained ==
    /\ pc \notin {"shutdown", "raised"}
    /\ pc = "returned" => \A i \in Tasks : Failed(i) => FromTask(torrents, i) = <<>>

\* C2: with limit > 0, search returns at most limit records.
C2_AtMostLimit ==
    (pc = "returned" /\ args.limit > 0) => Len(result) <= args.limit

\* the sink was full when a source offered a record, and search returned
\* as many records as the limit allows
C2_Witness ==
    /\ pc = "returned"
    /\ args.limit > 0
    /\ Len(result) = args.limit
    /\ \E i \in Tasks : task[i].exc = "Full"

A5(id) == [title |-> "A", seeds |-> 5, provider |-> id]

A2(id) == [title |-> "A", seeds |-> 2, provider |-> id]

B1(id) == [title |-> "B", seeds |-> 1, provider |-> id]

\* search returned after two sources, neither cut short nor failing, yielded
\* [A:5] (task a) and [A:2, B:1] (task b) into an unbounded sink
C5_Scenario(a, b) ==
    /\ pc = "returned"
    /\ args.limit = 0
    /\ Len(providers) = 2
    /\ a # b
    /\ \A i \in Tasks : task[i].exc = "none" /\ ~task[i].cut
    /\ FromTask(torrents, a) = <<A5(providers[a])>>
    /\ FromTask(torrents, b) = <<A2(providers[b]), B1(providers[b])>>

\* C5: two sources yielding [A:5] and [A:2, B:1], limit 0, no timeout
\* expiring: search returns [A:5, B:1], whatever the interleaving.
C5_EndToEndMerge ==
    \A a, b \in Tasks :
        C5_Scenario(a, b) => result = <<A5(providers[a]), B1(providers[b])>>

\* the scenario, with A:5 arriving in the sink after A:2 and B:1
C5_Witness ==
    \E a, b \in Tasks :
        /\ C5_Scenario(a, b)
        /\ torrents = <<A2(providers[b]), B1(providers[b]), A5(providers[a])>>

\* C6: no source raises to the caller of search, and a source whose first
\* fetch ran into the timeout contributes no record.
C6_DeadlineBoundsSearch ==
    /\ pc # "raised"
    /\ \A i \in Tasks :
          (task[i].exc = "Timeout" /\ task[i].fetches = 1) => task[i].offered = 0

\* C9: the search of a source with a category map that lacks the category it
\* is given fails with NotSupportedError before any fetch, and search
\* returns all the same.
C9_UnsupportedCategoryContained ==
    /\ \A i \in Tasks :
          (/\ registry[providers[i]].cls = "TorrentProvider"
           /\ ~NoCategories(registry[providers[i]].config)
           /\ task[i].g = "deliver")
          => /\ task[i].ending = "NotSupportedError"
             /\ task[i].fetches = 0
    /\ pc \notin {"shutdown", "raised"}

\* the records of the drained list, source after source
RECURSIVE SourceAfterSource(_)
SourceAfterSource(i) ==
    IF i > Len(task) THEN <<>> ELSE FromTask(torrents, i) \o SourceAfterSource(i + 1)

\* C10 as stated: with an unbounded sink the list search returns is the one
\* it returns when the records arrive source after source.
C10_ArrivalOrderIrrelevant ==
    (pc = "returned" /\ args.limit = 0) => result = _sort(_filter(SourceAfterSource(1)))

MaxSeeds(list, title) ==
    CHOOSE n \in {list[i].seeds : i \in 1..Len(list)} :
        /\ \E i \in 1..Len(list) : list[i].title = title /\ list[i].seeds = n
        /\ \A i \in 1..Len(list) : list[i].title = title => list[i].seeds <= n

\* C10, amended: with an unbounded sink the returned list holds one record
\* for each title produced, with the highest seed count produced for that
\* title, in descending order of seeds: titles, seed counts and the sequence
\* of seed counts are those of the set of records produced.
C10_TitlesAndSeedsFixed ==
    (pc = "returned" /\ args.limit = 0) =>
        /\ TitlesOf(result) = TitlesOf(torrents)
        /\ Len(result) = Cardinality(TitlesOf(torrents))
        /\ \A k \in 1..Len(result) :
              result[k].seeds = MaxSeeds(torrents, result[k].title)
        /\ \A k, l \in 1..Len(result) : k < l => result[k].seeds >= result[l].seeds

\* two sources produced records that tie, and the list returned is not the
\* one of the arrival source after source
C10_Witness ==
    /\ pc = "returned"
    /\ args.limit = 0
    /\ \E i, j \in Tasks : i # j /\ FromTask(torrents, i) # <<>> /\ FromTask(torrents, j) # <<>>
    /\ result # _sort(_filter(SourceAfterSource(1)))

----------------------------------------------------------------------------
(* C11: the short circuit of search *)

NoEnabledProvider == \A k \in 1..Len(registry) : ~registry[k].enabled

\* C11: search called with an empty query, or with no enabled provider in
\* the registry, returns the empty list in that very step: no task is
\* created, no worker pool is sized, nothing is put in the sink and no time
\* passes, whatever limit, timeout and n_threads are.
C11_EmptySearchShortCircuits ==
    [][(pc = "idle" /\ (args.query = <<>> \/ NoEnabledProvider))
       => /\ pc' = "returned"
          /\ result' = <<>>
          /\ task' = <<>>
          /\ providers' = <<>>
          /\ n_threads' = 0
          /\ q' = <<>>
          /\ clock' = clock]_vars

\* search returned at once for a query that is not empty, a positive limit
\* and a thread count, over a registry whose providers are all disabled
C11_Witness ==
    /\ pc = "returned"
    /\ args.query # <<>>
    /\ args.limit > 0
    /\ args.n_threads # None
    /\ Len(registry) = 2
    /\ NoEnabledProvider
    /\ task = <<>>
    /\ result = <<>>

----------------------------------------------------------------------------
(* TorrentProviderManager and the registry methods of TorrentSearchEngine. *)
(* Here the registry is the dict self.providers as a sequence of entries   *)
(* in insertion order: the key, and name, serial and enabled flag of the   *)
(* provider object stored under it.  Name and serial are the identity of   *)
(* an object.                                                              *)

ProviderNames == {"a", "b"}

MaxSerial == 2

MaxArgs == 1

\* a provider object that a caller passes
Objects == [type : {"TorrentProvider"}, name : ProviderNames, serial : 1..MaxSerial]

\* what remove, disable and enable take: a name or a provider object
Refs == [type : {"str"}, name : ProviderNames] \cup Objects

RefLists == UNION {[1..n -> Refs] : n \in 0..MaxArgs}

\* what add takes: a provider object with the flag it has, a dict, or the
\* path or url of a document; load tells whether the document can be read
\* and parsed, valid whether the validator accepts the dict
Definitions ==
    [type : {"TorrentProvider"}, name : ProviderNames, serial : 1..MaxSerial,
     enabled : BOOLEAN]
    \cup [type : {"dict"}, name : ProviderNames, valid : BOOLEAN]
    \cup [type : {"str"}, url : BOOLEAN, load : {"ok", "fail"},
          name : ProviderNames, valid : BOOLEAN]

Keys(reg) == {reg[k].key : k \in 1..Len(reg)}

KeyIndex(reg, key) == CHOOSE k \in 1..Len(reg) : reg[k].key = key

\* the object of an entry
ObjectOf(entry) == [type |-> "TorrentProvider", name |-> entry.name, serial |-> entry.serial]

\* whether the object is the one stored somewhere in the registry
Registered(reg, obj) == \E k \in 1..Len(reg) : ObjectOf(reg[k]) = obj

\* TorrentProviderManager.get: the entry in a one-element sequence, or None
get(reg, name) == IF name \in Keys(reg) THEN <<reg[KeyIndex(reg, name)]>> ELSE None

\* a slip: an insertion that never overwrites
_add_appending(reg, provider) ==
    Append(reg, [key |-> provider.name, name |-> provider.name,
                 serial |-> provider.serial, enabled |-> provider.enabled])

\* TorrentProviderManager._add: self.providers[provider.name] = provider;
\* an existing key keeps its place in the dict
_add(reg, provider) ==
    LET entry == [key |-> provider.name, name |-> provider.name,
                  serial |-> provider.serial, enabled |-> provider.enabled]
    IN  IF provider.name \in Keys(reg)
        THEN [reg EXCEPT ![KeyIndex(reg, provider.name)] = entry]
        ELSE Append(reg, entry)

\* TorrentProviderManager._add_from_dict; the provider built from the dict
\* is a new object, enabled (torrentprovider.py line 24)
_add_from_dict(reg, provider_dict, serial) ==
    IF ~provider_dict.valid
    THEN [exc |-> "ValidationError", reg |-> reg]
    ELSE [exc |-> "none",
          reg |-> _add(reg, [name |-> provider_dict.name, serial |-> serial,
                             enabled |-> TRUE])]

\* TorrentProviderManager._add_from_file: open and json.load, then the dict
_add_from_file(reg, path, serial) ==
    IF path.load # "ok"
    THEN [exc |-> "OSError", reg |-> reg]
    ELSE _add_from_dict(reg, path, serial)

\* TorrentProviderManager._add_from_url: get, raise_for_status and
\* json.loads, then the dict
_add_from_url(reg, url, serial) ==
    IF url.load # "ok"
    THEN [exc |-> "RequestException", reg |-> reg]
    ELSE _add_from_dict(reg, url, serial)

\* TorrentProviderManager.add
add(reg, provider, serial) ==
    IF provider.type = "TorrentProvider"
    THEN [exc |-> "none", reg |-> _add(reg, provider)]
    ELSE LET r == IF provider.type = "dict"
                  THEN _add_from_dict(reg, provider, serial)
                  ELSE IF provider.url
                  THEN _add_from_url(reg, provider, serial)
                  ELSE _add_from_file(reg, provider, serial)
         IN  IF r.exc # "none"
             THEN [exc |-> "TorrentSearchEngineError", reg |-> reg]
             ELSE r

\* TorrentSearchEngine.add_provider.  Lines 67, 78 and 87 call add_from_dict,
\* add_from_url and add_from_file, which TorrentProviderManager does not
\* define: AttributeError, caught by "except Exception" and raised again as
\* TorrentSearchEngineError
add_provider(reg, provider, serial) ==
    IF provider.type = "TorrentProvider"
    THEN add(reg, provider, serial)
    ELSE [exc |-> "TorrentSearchEngineError", reg |-> reg]

\* TorrentProviderManager._remove
_remove(reg, provider) ==
    IF provider.name \in Keys(reg)
    THEN LET k == KeyIndex(reg, provider.name)
         IN  SubSeq(reg, 1, k - 1) \o SubSeq(reg, k + 1, Len(reg))
    ELSE reg

\* TorrentProvider.enable and disable on the object that _enable and
\* _disable find: the object passed, or the one stored under the name
SetEnabled(reg, provider, flag) ==
    [k \in 1..Len(reg) |->
        IF \/ provider.type = "TorrentProvider" /\ ObjectOf(reg[k]) = provider
           \/ provider.type = "str" /\ reg[k].key = provider.name
        THEN [reg[k] EXCEPT !.enabled = flag]
        ELSE reg[k]]

\* a slip: a disable that deletes
_disable_deleting(reg, provider) ==
    IF provider.type = "str" \/ Registered(reg, provider)
    THEN SelectSeq(reg, LAMBDA e : e.key # provider.name)
    ELSE reg

\* TorrentProviderManager._disable
_disable(reg, provider) == SetEnabled(reg, provider, FALSE)

\* TorrentProviderManager._enable
_enable(reg, provider) == SetEnabled(reg, provider, TRUE)

\* TorrentProviderManager.remove, disable, enable: the loops over *providers
RECURSIVE remove(_, _)
remove(reg, provs) ==
    IF provs = <<>> THEN reg ELSE remove(_remove(reg, Head(provs)), Tail(provs))

RECURSIVE disable(_, _)
disable(reg, provs) ==
    IF provs = <<>> THEN reg ELSE disable(_disable(reg, Head(provs)), Tail(provs))

RECURSIVE enable(_, _)
enable(reg, provs) ==
    IF provs = <<>> THEN reg ELSE enable(_enable(reg, Head(provs)), Tail(provs))

\* get_all() with enabled=None: every stored object
AllObjects(reg) == [k \in 1..Len(reg) |-> ObjectOf(reg[k])]

remove_all(reg) == remove(reg, AllObjects(reg))

disable_all(reg) == disable(reg, AllObjects(reg))

enable_all(reg) == enable(reg, AllObjects(reg))

InitRegistry ==
    /\ registry = <<>>
    /\ call = NoCall
    /\ ret = NoCall
    /\ args = [query |-> "", limit |-> 0, timeout |-> 0, n_threads |-> 0]
    /\ pc = "registry"
    /\ providers = <<>>
    /\ n_threads = 0
    /\ task = <<>>
    /\ q = <<>>
    /\ clock = 0
    /\ start_time = 0
    /\ torrents = <<>>
    /\ result = <<>>
    /\ exc = "none"

registryFrame == <<args, pc, n_threads, task, q, clock, start_time, torrents, result, exc>>

\* an object that a caller passes carries the flag it has: that of the
\* registry when it is stored there
FlagAgrees(reg, provider) ==
    \A k \in 1..Len(reg) :
        ObjectOf(reg[k]) = ObjectOf(provider) => reg[k].enabled = provider.enabled

\* the serials a provider built now can have: those of no stored object
FreshSerials(reg, name) ==
    {s \in 1..MaxSerial : ~Registered(reg, [type |-> "TorrentProvider", name |-> name, serial |-> s])}

Reg_add_provider ==
    \E provider \in Definitions :
        /\ provider.type = "TorrentProvider" => FlagAgrees(registry, provider)
        /\ \E serial \in FreshSerials(registry, provider.name) :
              LET r == add_provider(registry, provider, serial)
              IN  /\ call' = [fn |-> "add_provider", provider |-> provider]
                  /\ ret' = [exc |-> r.exc, value |-> None]
                  /\ registry' = r.reg
        /\ providers' = <<>>
        /\ UNCHANGED registryFrame

Reg_add ==
    \E provider \in Definitions :
        /\ provider.type = "TorrentProvider" => FlagAgrees(registry, provider)
        /\ \E serial \in FreshSerials(registry, provider.name) :
              LET r == add(registry, provider, serial)
              IN  /\ call' = [fn |-> "add", provider |-> provider]
                  /\ ret' = [exc |-> r.exc, value |-> None]
                  /\ registry' = r.reg
        /\ providers' = <<>>
        /\ UNCHANGED registryFrame

Reg_remove ==
    \E provs \in RefLists :
        /\ call' = [fn |-> "remove", providers |-> provs]
        /\ ret' = [exc |-> "none", value |-> None]
        /\ registry' = remove(registry, provs)
        /\ providers' = <<>>
        /\ UNCHANGED registryFrame

Reg_disable ==
    \E provs \in RefLists :
        /\ call' = [fn |-> "disable", providers |-> provs]
        /\ ret' = [exc |-> "none", value |-> None]
        /\ registry' = disable(registry, provs)
        /\ providers' = <<>>
        /\ UNCHANGED registryFrame

Reg_enable ==
    \E provs \in RefLists :
        /\ call' = [fn |-> "enable", providers |-> provs]
        /\ ret' = [exc |-> "none", value |-> None]
        /\ registry' = enable(registry, provs)
        /\ providers' = <<>>
        /\ UNCHANGED registryFrame

Reg_remove_all ==
    /\ call' = [fn |-> "remove_all"]
    /\ ret' = [exc |-> "none", value |-> None]
    /\ registry' = remove_all(registry)
    /\ providers' = <<>>
    /\ UNCHANGED registryFrame

Reg_disable_all ==
    /\ call' = [fn |-> "disable_all"]
    /\ ret' = [exc |-> "none", value |-> None]
    /\ registry' = disable_all(registry)
    /\ providers' = <<>>
    /\ UNCHANGED registryFrame

Reg_enable_all ==
    /\ call' = [fn |-> "enable_all"]
    /\ ret' = [exc |-> "none", value |-> None]
    /\ registry' = enable_all(registry)
    /\ providers' = <<>>
    /\ UNCHANGED registryFrame

\* TorrentSearchEngine.get_provider(name)
Reg_get_provider ==
    \E name \in ProviderNames :
        /\ call' = [fn |-> "get_provider", name |-> name]
        /\ ret' = [exc |-> "none", value |-> get(registry, name)]
        /\ providers' = <<>>
        /\ UNCHANGED <<registry, registryFrame>>

\* line 31 of search: providers = self.get_providers(enabled=True), the
\* providers that the search then queries; the list is a local of search,
\* gone with the next call
Reg_get_providers ==
    /\ call' = [fn |-> "get_providers"]
    /\ ret' = [exc |-> "none", value |-> None]
    /\ providers' = get_all(registry, 1)
    /\ UNCHANGED <<registry, registryFrame>>

NextRegistry ==
    \/ Reg_add_provider
    \/ Reg_add
    \/ Reg_remove
    \/ Reg_disable
    \/ Reg_enable
    \/ Reg_remove_all
    \/ Reg_disable_all
    \/ Reg_enable_all
    \/ Reg_get_provider
    \/ Reg_get_providers

SpecRegistry == InitRegistry /\ [][NextRegistry]_vars

----------------------------------------------------------------------------
(* C12, C13, C20: the registry *)

EnabledKeys(reg) == {reg[k].key : k \in {j \in 1..Len(reg) : reg[j].enabled}}

\* the keys of the entries that a list of registry indices selects
KeysAt(reg, provs) == {reg[provs[i]].key : i \in 1..Len(provs)}

\* the entry is the target of one of the references
Targeted(entry, provs) ==
    \E i \in 1..Len(provs) :
        \/ provs[i].type = "str" /\ provs[i].name = entry.key
        \/ provs[i].type = "TorrentProvider" /\ provs[i] = ObjectOf(entry)

\* C12: the providers that search selects are those of the registry whose
\* flag is set; disable and enable leave keys and objects of the registry as
\* they are, set the flag of each provider they name and leave the others
\* alone; get_provider returns the entry of a name whatever its flag; and a
\* key leaves the registry only in a remove.
C12_EnabledIndependentOfRemoval ==
    [][/\ call'.fn = "get_providers" =>
             /\ KeysAt(registry, providers') = EnabledKeys(registry)
             /\ Len(providers') = Cardinality(EnabledKeys(registry))
       /\ call'.fn \in {"disable", "enable"} =>
             /\ Keys(registry') = Keys(registry)
             /\ AllObjects(registry') = AllObjects(registry)
             /\ \A k \in 1..Len(registry) :
                   registry'[k].enabled =
                       IF Targeted(registry[k], call'.providers)
                       THEN call'.fn = "enable"
                       ELSE registry[k].enabled
       /\ call'.fn = "get_provider" =>
             /\ ret'.value # None <=> call'.name \in Keys(registry)
             /\ ret'.value # None => ret'.value[1].key = call'.name
       /\ call'.fn = "remove" =>
             Keys(registry') =
                 Keys(registry) \ {call'.providers[i].name : i \in 1..Len(call'.providers)}
       /\ ~(Keys(registry) \subseteq Keys(registry')) =>
             call'.fn \in {"remove", "remove_all"}]_vars

\* disable("a") has acted on a registry of two providers: "a" is still
\* stored, with its flag cleared, next to "b", which search would select
C12_Witness ==
    /\ call.fn = "disable"
    /\ call.providers = <<[type |-> "str", name |-> "a"]>>
    /\ Len(registry) = 2
    /\ get(registry, "a") # None
    /\ ~get(registry, "a")[1].enabled
    /\ KeysAt(registry, get_all(registry, 1)) = {"b"}

ValidDefinition(provider) ==
    \/ provider.type = "TorrentProvider"
    \/ provider.type = "dict" /\ provider.valid
    \/ provider.type = "str" /\ provider.load = "ok" /\ provider.valid

\* C13: add_provider with a valid definition (object, dict, path or url)
\* raises nothing and leaves the provider stored under its name; with an
\* invalid one it raises and leaves the registry as it was.
C13_AddProviderAddsOrRaises ==
    [][call'.fn = "add_provider" =>
          IF ValidDefinition(call'.provider)
          THEN /\ ret'.exc = "none"
               /\ call'.provider.name \in Keys(registry')
          ELSE /\ ret'.exc # "none"
               /\ registry' = registry]_vars

UniqueKeys(reg) == \A i, j \in 1..Len(reg) : i # j => reg[i].key # reg[j].key

OwnName(reg) == \A k \in 1..Len(reg) : reg[k].key = reg[k].name

\* C20: after every operation the registry has one entry per key and every
\* provider is stored under its own name; an add of a name that is present
\* puts the provider added, with the flag it has, in the place of the one
\* stored and leaves every other entry as it was.
C20_OneSourcePerName ==
    [][/\ UniqueKeys(registry')
       /\ OwnName(registry')
       /\ (/\ call'.fn \in {"add", "add_provider"}
           /\ ret'.exc = "none"
           /\ call'.provider.name \in Keys(registry))
          => LET k == KeyIndex(registry, call'.provider.name)
             IN  /\ Len(registry') = Len(registry)
                 /\ \A j \in 1..Len(registry) : j # k => registry'[j] = registry[j]
                 /\ registry'[k].name = call'.provider.name
                 /\ IF call'.provider.type = "TorrentProvider"
                    THEN /\ ObjectOf(registry'[k]) = ObjectOf(call'.provider)
                         /\ registry'[k].enabled = call'.provider.enabled
                    ELSE /\ registry'[k].serial # registry[k].serial
                         /\ registry'[k].enabled]_vars

\* a dict of name "a" was added while "a" was stored before "b": a new
\* object, enabled, is where "a" was, next to an untouched disabled "b"
C20_Witness ==
    /\ call.fn = "add"
    /\ call.provider.type = "dict"
    /\ call.provider.name = "a"
    /\ ret.exc = "none"
    /\ Len(registry) = 2
    /\ registry[1].key = "a"
    /\ registry[1].enabled
    /\ registry[2].key = "b"
    /\ ~registry[2].enabled

----------------------------------------------------------------------------
(* C14: the details of a record without info_url *)

\* C14: fetch_details_data on a record whose info_url is None or empty
\* raises nothing, makes no fetch and returns an empty dict.
C14_NoDetailUrlEmptyMap ==
    (call.fn = "fetch_details_data" /\ call.info_url \in {"None", ""})
    => /\ ret.exc = "none"
       /\ ret.fetches = 0
       /\ ~ret.isNone
       /\ ret.fields = {}

\* the call was made for a record without info_url, on a site whose fetch
\* would have failed
C14_Witness ==
    /\ call.fn = "fetch_details_data"
    /\ call.info_url = "None"
    /\ call.load = "RequestError"
    /\ ret.exc = "none"
    /\ ret.fetches = 0

----------------------------------------------------------------------------
(* C15, C17, C18: the pagination loop of TorrentProvider.search *)

\* the item nodes of the first n pages of a site, in order
RECURSIVE AllItems(_, _)
AllItems(site, n) == IF n = 0 THEN <<>> ELSE AllItems(site, n - 1) \o site[n].items

\* the records of the valid ones among the item nodes of the first n pages
ValidRecords(site, n, id) ==
    LET valid == SelectSeq(AllItems(site, n), LAMBDA item : item.valid)
    IN  [i \in 1..Len(valid) |->
            [title |-> valid[i].title, seeds |-> valid[i].seeds, provider |-> id]]

\* the time gone when the fetch of page k starts
RECURSIVE ElapsedBefore(_, _)
ElapsedBefore(site, k) ==
    IF k = 1 THEN 0 ELSE ElapsedBefore(site, k - 1) + site[k - 1].took

\* the pages whose fetch starts with more than the threshold left
PagesInTime(site, timeout) ==
    Cardinality({k \in 1..Len(site) :
                    \A j \in 1..k : timeout - ElapsedBefore(site, j) > Threshold})

\* the pages reached with quota left
PagesInQuota(site, limit) ==
    Cardinality({k \in 1..Len(site) : Len(AllItems(site, k - 1)) < limit})

AllLoad(site) == \A k \in 1..Len(site) : site[k].load = "ok"

\* C15: a search with a timeout, on pages that load and with a quota above
\* the item nodes of the site, hands every fetch a timeout above the
\* threshold, fetches the pages that start with more than the threshold
\* left and no other, raises nothing, and yields the valid records of the
\* pages fetched.
C15_LoopStopsAtThreshold ==
    (/\ call.fn = "search"
     /\ call.timeout # None
     /\ Truthy(call.limit)
     /\ call.limit[1] > Len(AllItems(call.site, Len(call.site)))
     /\ AllLoad(call.site))
    => /\ ret.exc = "none"
       /\ \A i \in 1..Len(ret.trace) : ret.trace[i].current_timeout[1] > Threshold
       /\ ret.fetches = PagesInTime(call.site, call.timeout[1])
       /\ ret.yielded = ValidRecords(call.site, ret.fetches, 1)

C18_InvalidItemSkipped ==
    (/\ call.fn = "search"
     /\ Truthy(call.limit)
     /\ call.limit[1] > Len(AllItems(call.site, Len(call.site)))
     /\ AllLoad(call.site)
     /\ \E item \in Range(AllItems(call.site, Len(call.site))) : ~item.valid)
    => /\ ret.exc = "none"
       /\ ret.yielded = ValidRecords(call.site, Len(call.site), 1)

----------------------------------------------------------------------------
(* C16: the budget of a task *)

\* the search of the provider of task i has been called
SearchCalled(i) == task[i].st \in {"running", "done", "raised"} /\ task[i].g # "new"

\* C16: the timeout that a task computes is the timeout of search less the
\* time elapsed since its start at some moment up to now, the search of its
\* provider gets that budget as its timeout parameter, and a task whose
\* budget was at or below the threshold has made no fetch and offered no
\* record.
C16_BudgetIsSourceTimeout ==
    \A i \in Tasks :
        /\ task[i].st \in {"running", "done", "raised"} =>
              \E elapsed_time \in 0..(clock - start_time) :
                  task[i].timeout = args.timeout - elapsed_time
        /\ SearchCalled(i) => task[i].search_timeout = <<task[i].timeout>>
        /\ (task[i].st = "done" /\ task[i].timeout <= Threshold) =>
              /\ task[i].fetches = 0
              /\ task[i].offered = 0
              /\ ~SearchCalled(i)

----------------------------------------------------------------------------
(* C19: the full sink *)

Ended(i) == task[i].st \in {"done", "raised", "cancelled"}

\* a step of the thread that runs task i
TaskStep(i) ==
    \/ TaskIterProvider(i)
    \/ TaskIterCustom(i)
    \/ CustomFetchDone(i)
    \/ TaskPut(i)
    \/ TaskEnd(i)

\* how far task i has come: every step of the task adds to it, and it is
\* bounded since fetches and records offered are
Progress(t) ==
    4 * t.fetches + t.offered + (IF t.g = "deliver" THEN 2 ELSE 0)
    + (IF t.st = "pending" THEN 0 ELSE 1)
    + (IF t.st \in {"done", "raised", "cancelled"} THEN 4 * (MaxPages + MaxItems + 2) ELSE 0)

\* C19: with limit > 0 the sink never holds more than limit records; a task
\* that runs can always take a step, a put included whatever the sink holds;
\* a put refused by the full sink ends the task normally and is never the
\* exception that search raises; and every step of a task brings it nearer
\* to its end, so every task ends.
C19_FullSinkDropsWithoutBlocking ==
    /\ [](/\ args.limit > 0 => Len(q) <= args.limit
          /\ \A i \in Tasks :
                /\ task[i].st = "running" => ENABLED TaskStep(i)
                /\ (task[i].st = "running" /\ task[i].g = "deliver" /\ NextYields(i) # {})
                   => ENABLED TaskPut(i)
                /\ task[i].exc = "Full" => task[i].st = "done"
          /\ exc # "Full")
    /\ [][\A i \in Tasks :
             /\ Ended(i) => task'[i] = task[i]
             /\ task'[i] # task[i] => Progress(task'[i]) > Progress(task[i])]_vars

\* two tasks have each had a record refused by the full sink, and both
\* have ended
C19_Witness ==
    /\ args.limit > 0
    /\ Len(q) = args.limit
    /\ \E i, j \in Tasks :
          /\ i # j
          /\ task[i].exc = "Full" /\ task[i].st = "done"
          /\ task[j].exc = "Full" /\ task[j].st = "done"

----------------------------------------------------------------------------
(* C21: the tasks and the pool *)

EnabledCount == Cardinality({k \in 1..Len(registry) : registry[k].enabled})

\* the fan-out has begun
Submitted == pc \in {"map", "shutdown", "raised"} \/ (pc = "returned" /\ providers # <<>>)

\* C21: once search has submitted its tasks there is one task for each
\* enabled provider of the registry, each provider having its own; the
\* thread count is the caller's when that is 1 or more, and otherwise the
\* smaller of the number of enabled providers and 5 times the cpu count;
\* and never more tasks run than the thread count.
C21_OneTaskPerSourceBoundedPool ==
    Submitted =>
        /\ Len(task) = EnabledCount
        /\ Len(providers) = Len(task)
        /\ \A i, j \in Tasks : i # j => providers[i] # providers[j]
        /\ \A i \in Tasks : registry[providers[i]].enabled
        /\ n_threads =
              IF args.n_threads # None /\ args.n_threads[1] >= 1
              THEN args.n_threads[1]
              ELSE IF EnabledCount < 5 * CpuCount THEN EnabledCount ELSE 5 * CpuCount
        /\ Cardinality(Running) <= n_threads

\* the caller asked for one thread and two providers are enabled: one task
\* runs while the other waits for the worker
C21_Witness ==
    /\ pc = "map"
    /\ args.n_threads = <<1>>
    /\ Len(task) = 2
    /\ \E i, j \in Tasks : task[i].st = "running" /\ task[j].st = "pending"

----------------------------------------------------------------------------
(* C22: the rejected record *)

\* the step in which the full sink rejects a record of task i
Rejected(i) == task[i].exc # "Full" /\ task'[i].exc = "Full"

\* C22: a task whose record was rejected is done and the sink is full for as
\* long as the tasks are awaited; the step that rejects a record of a task
\* is taken on a full sink, leaves the sink as it is, starts no fetch and
\* ends the task; after it the task never changes, so it starts no fetch
\* and offers no record; the sink loses records only in the step that
\* returns, when every task is done; and a full sink stays full, with the
\* same records, until that step.
C22_RejectedTaskStopsSinkStaysFull ==
    /\ [](\A i \in Tasks :
             task[i].exc = "Full" =>
                 /\ task[i].st = "done"
                 /\ (pc = "returned" \/ QueueFull(q, args.limit)))
    /\ [][/\ \A i \in Tasks :
             /\ Rejected(i) =>
                   /\ QueueFull(q, args.limit)
                   /\ q' = q
                   /\ task[i].st = "running"
                   /\ task'[i].st = "done"
                   /\ task'[i].fetches = task[i].fetches
                   /\ task'[i].g = task[i].g
             /\ (task[i].exc = "Full" => task'[i] = task[i])
          /\ Len(q') < Len(q) =>
                /\ pc = "map" /\ pc' = "returned"
                /\ \A i \in Tasks : task[i].st = "done"
          /\ QueueFull(q, args.limit) =>
                \/ q' = q
                \/ pc = "map" /\ pc' = "returned"]_vars

\* the sink is full and a task has ended at a rejected record with records
\* and pages of its provider left, while another task still runs
C22_Witness ==
    /\ pc = "map"
    /\ QueueFull(q, args.limit)
    /\ \E i, j \in Tasks :
          /\ task[i].exc = "Full" /\ task[i].st = "done"
          /\ task[i].offered < MaxItems /\ task[i].fetches < MaxPages
          /\ task[j].st = "running"

====
